---- MODULE Spec2Model ----
(***************************************************************************)
(* Idempotent consumer of the Pub-Sub log aggregator: the SQLite dedup     *)
(* store (src/src/database.py), the asyncio worker pool                    *)
(* (src/src/processor.py) and the ingress handlers and lifespan            *)
(* (src/src/main.py).                                                      *)
(***************************************************************************)
EXTENDS Integers, Sequences, FiniteSets

(***************************************************************************)
(* Bounds of the model.                                                    *)
(***************************************************************************)
NumWorkers == 2        \* Config.CONSUMER_WORKERS, any value >= 1
QueueMaxSize == 2      \* Config.QUEUE_MAX_SIZE, any value >= 1
MaxEvents == 3         \* events submitted over one run of the model
NumCallers == 2        \* concurrent direct callers of the Database
MaxCalls == 3          \* direct Database calls over one run
MaxOpens == 2          \* Database(db_path) constructions by direct callers
MaxClock == 1          \* seconds that pass over one run

Topics == {"t1", "t2"}
EventIds == {"e1", "e2"}

\* models.py Event: only the fields the core reads (topic, event_id).
Event == [topic : Topics, event_id : EventIds]
NoEvent == [topic |-> "none", event_id |-> "none"]

\* The keys the ingress submits: two ids on one topic, one id on two topics.
Submitted == {k \in Event : ~(k.topic = "t2" /\ k.event_id = "e2")}

Workers == 1..NumWorkers
Callers == 1..NumCallers

(***************************************************************************)
(* The dedup store: table processed_events of the SQLite file.             *)
(***************************************************************************)
\* CURRENT_TIMESTAMP of the SQLite host: UTC time in whole seconds.
VARIABLES clock

\* A database file without the table (before the first Database(db_path)).
NoDb == [table |-> FALSE, rows |-> <<>>]

\* _init_db: CREATE TABLE IF NOT EXISTS keeps an existing table and its rows.
InitDbRecreate(d) == [table |-> TRUE, rows |-> <<>>]
InitDb(d) == IF d.table THEN d ELSE [table |-> TRUE, rows |-> <<>>]

\* WHERE topic = ? AND event_id = ?
MatchesTopicOnly(r, t, e) == r.topic = t
MatchesIdOnly(r, t, e) == r.event_id = e
Matches(r, t, e) == r.topic = t /\ r.event_id = e

\* is_processed: SELECT 1 ... LIMIT 1; result is not None
IsProcessed(rows, t, e) == \E i \in DOMAIN rows : Matches(rows[i], t, e)

\* UNIQUE(topic, event_id): would a new row (t, e) conflict?
UniqueConflictNever(rows, t, e) == FALSE
UniqueConflict(rows, t, e) ==
    \E i \in DOMAIN rows : rows[i].topic = t /\ rows[i].event_id = e

\* INSERT OR IGNORE INTO processed_events (topic, event_id) VALUES (?, ?):
\* the new row gets the next rowid (rows are kept in rowid order) and
\* processed_at DEFAULT CURRENT_TIMESTAMP.
InsertOrIgnore(rows, t, e) ==
    IF UniqueConflict(rows, t, e) THEN rows
    ELSE Append(rows, [topic |-> t, event_id |-> e, processed_at |-> clock])

\* cursor.rowcount of that INSERT OR IGNORE
RowCount(rows, t, e) == IF UniqueConflict(rows, t, e) THEN 0 ELSE 1

\* is_new = cursor.rowcount > 0
IsNewAlways(rows, t, e) == TRUE
IsNew(rows, t, e) == RowCount(rows, t, e) > 0

\* SELECT DISTINCT topic FROM processed_events, over the first row only.
GetAllTopicsFirst(rows) == IF rows = <<>> THEN {} ELSE {rows[1].topic}

\* SELECT DISTINCT topic FROM processed_events: the topics of the rows, each
\* once, in the order the scan meets them.
RECURSIVE SelectDistinctTopic(_)
SelectDistinctTopic(rows) ==
    IF rows = <<>> THEN <<>>
    ELSE LET front == SelectDistinctTopic(SubSeq(rows, 1, Len(rows) - 1))
             t == rows[Len(rows)].topic
         IN  IF \E i \in DOMAIN front : front[i] = t THEN front ELSE Append(front, t)

\* get_all_topics: {row[0] for row in rows}
GetAllTopics(rows) ==
    LET res == SelectDistinctTopic(rows) IN {res[i] : i \in DOMAIN res}

\* SELECT COUNT(DISTINCT topic) FROM processed_events
GetCountTopics(rows) == Cardinality({rows[i].topic : i \in DOMAIN rows})

\* get_count: SELECT COUNT(*) FROM processed_events
GetCount(rows) == Len(rows)

\* get_events_by_topic(topic): "if topic:" is false for None and for "".
NoTopic == "None"
Filters == Topics \cup {NoTopic, ""}
Truthy(tf) == tf \notin {NoTopic, ""}

\* WHERE topic = ? when a filter is given, in rowid order.
RECURSIVE Where(_, _)
Where(rows, tf) ==
    IF rows = <<>> THEN <<>>
    ELSE IF ~Truthy(tf) \/ Head(rows).topic = tf
         THEN <<Head(rows)>> \o Where(Tail(rows), tf)
         ELSE Where(Tail(rows), tf)

\* ORDER BY processed_at DESC: every arrangement of the selected rows with
\* non-increasing processed_at; SQLite leaves the order of rows with equal
\* processed_at unspecified.
OrderByProcessedAtDesc(sel) ==
    LET n == Len(sel)
        perms == {p \in [1..n -> 1..n] : \A i, j \in 1..n : i # j => p[i] # p[j]}
    IN  {[i \in 1..n |-> sel[p[i]]] : p \in
            {q \in perms : \A i, j \in 1..n :
                i < j => sel[q[i]].processed_at >= sel[q[j]].processed_at}}

\* get_events_by_topic: the lists it can return.
GetEventsByTopic(rows, tf) == OrderByProcessedAtDesc(Where(rows, tf))

\* What a direct caller observes: the returned bool, or a raised exception.
Returned(b) == IF b THEN "True" ELSE "False"

\* asyncio.Queue.put for each event of a request in turn (main.py:95, 131-134):
\* put_nowait while the queue is not full; at a full queue put() suspends with
\* the rest of the request still to be put.
RECURSIVE PutMany(_, _)
PutMany(q, es) ==
    IF es = <<>> \/ Len(q) >= QueueMaxSize THEN [queue |-> q, rest |-> es]
    ELSE PutMany(Append(q, Head(es)), Tail(es))

\* The keys of the rows of the table.
Keys(rows) == {[topic |-> rows[i].topic, event_id |-> rows[i].event_id] : i \in DOMAIN rows}

VARIABLES
    db,         \* the SQLite file at db_path: [table, rows]
    phase,      \* lifespan: "down", "up", "stopping" (inside stop()), "stopped"
    queue,      \* event_queue: the items of the asyncio.Queue
    putters,    \* requests suspended in event_queue.put: their events still to put
    unfinished, \* event_queue._unfinished_tasks (put increments, task_done decrements)
    running,    \* EventProcessor.running
    stats,      \* EventProcessor.stats
    pc,         \* worker task -> where it is suspended
    cur,        \* worker task -> the event it dequeued
    is_new,     \* worker task -> result of its INSERT OR IGNORE, not yet returned
    errors,     \* worker task -> error records it logged for store faults
    submitted,  \* events submitted in this lifespan
    seen,       \* keys of the events submitted in this lifespan
    base,       \* keys in the store when this lifespan started
    nsub,       \* events submitted over the run
    again,      \* stop() was called again on the stopped processor
    opens,      \* Database(db_path) constructions by direct callers
    cpc,        \* direct caller -> where its Database call stands
    carg,       \* direct caller -> the (topic, event_id) of its call
    cres,       \* direct caller -> result of its last completed call
    ncalls,     \* direct Database calls made
    ret,        \* key -> mark_processed results returned: [t] True, [f] False
    reopened,   \* keys whose mark had returned True when the file was opened again
    sref,       \* which dict the /stats handler's local refers to, if any
    scopy,      \* contents of the dict made by stats.copy()
    rres,       \* the last read call on the Database and what it returned
    wiped,      \* clear() ran while a mark_processed had inserted and not returned
    ucount      \* key -> unique_processed increments made for it, by any processor

callVars == <<opens, cpc, carg, cres, ncalls, ret, reopened>>
queueVars == <<queue, putters, unfinished>>
histVars == <<submitted, seen, base, nsub, again>>
snapVars == <<sref, scopy>>
readVars == <<clock, rres, wiped>>
poolVars == <<phase, queue, putters, unfinished, running, stats, pc, cur,
              is_new, errors, submitted, seen, base, nsub, again, sref, scopy,
              clock, rres, wiped, ucount>>
vars == <<db, phase, queue, putters, unfinished, running, stats, pc, cur,
          is_new, errors, submitted, seen, base, nsub, again, opens, cpc, carg, cres, ncalls, ret,
          reopened, sref, scopy, clock, rres, wiped, ucount>>

\* No read call made yet.
NoRead == [op |-> "none", arg |-> NoTopic, val |-> 0]

ZeroStats == [received |-> 0, unique_processed |-> 0, duplicate_dropped |-> 0]

Init ==
    /\ db = NoDb
    /\ phase = "down"
    /\ queue = <<>>
    /\ putters = <<>>
    /\ unfinished = 0
    /\ running = FALSE
    /\ stats = ZeroStats
    /\ pc = [w \in Workers |-> "none"]
    /\ cur = [w \in Workers |-> NoEvent]
    /\ is_new = [w \in Workers |-> FALSE]
    /\ errors = [w \in Workers |-> 0]
    /\ submitted = 0
    /\ seen = {}
    /\ base = {}
    /\ nsub = 0
    /\ again = FALSE
    /\ opens = 0
    /\ cpc = [c \in Callers |-> "idle"]
    /\ carg = [c \in Callers |-> NoEvent]
    /\ cres = [c \in Callers |-> "none"]
    /\ ncalls = 0
    /\ ret = [k \in Event |-> [t |-> 0, f |-> 0]]
    /\ reopened = {}
    /\ sref = "none"
    /\ scopy = ZeroStats
    /\ clock = 0
    /\ rres = NoRead
    /\ wiped = FALSE
    /\ ucount = [k \in Event |-> 0]

(***************************************************************************)
(* Direct use of the Database, as tests/test_dedup.py and                  *)
(* tests/test_persistence.py use it.                                       *)
(***************************************************************************)
\* Database(db_path): __init__ runs _init_db on the file at that path.
Open ==
    /\ opens < MaxOpens
    /\ db' = InitDb(db)
    /\ opens' = opens + 1
    /\ reopened' = reopened \cup {k \in Event : ret[k].t >= 1}
    /\ UNCHANGED <<cpc, carg, cres, ncalls, ret>>
    /\ UNCHANGED poolVars

\* An is_processed that records the key it was asked about.
CallIsProcessedWrites(c, k) ==
    /\ db.table /\ cpc[c] = "idle" /\ ncalls < MaxCalls
    /\ cres' = [cres EXCEPT ![c] = Returned(IsProcessed(db.rows, k.topic, k.event_id))]
    /\ carg' = [carg EXCEPT ![c] = k]
    /\ ncalls' = ncalls + 1
    /\ db' = [db EXCEPT !.rows = InsertOrIgnore(db.rows, k.topic, k.event_id)]
    /\ UNCHANGED <<opens, cpc, ret, reopened>>
    /\ UNCHANGED poolVars

\* await database.is_processed(topic, event_id)
CallIsProcessed(c, k) ==
    /\ db.table /\ cpc[c] = "idle" /\ ncalls < MaxCalls
    /\ cres' = [cres EXCEPT ![c] = Returned(IsProcessed(db.rows, k.topic, k.event_id))]
    /\ carg' = [carg EXCEPT ![c] = k]
    /\ ncalls' = ncalls + 1
    /\ UNCHANGED <<db, opens, cpc, ret, reopened>>
    /\ UNCHANGED poolVars

\* database.mark_processed(topic, event_id) is called: the coroutine suspends
\* in aiosqlite.connect / db.execute.
CallMark(c, k) ==
    /\ db.table /\ cpc[c] = "idle" /\ ncalls < MaxCalls
    /\ cpc' = [cpc EXCEPT ![c] = "mark_processed"]
    /\ carg' = [carg EXCEPT ![c] = k]
    /\ cres' = [cres EXCEPT ![c] = "none"]
    /\ ncalls' = ncalls + 1
    /\ UNCHANGED <<db, opens, ret, reopened>>
    /\ UNCHANGED poolVars

\* mark_processed lines 95-103: INSERT OR IGNORE and commit, one SQLite
\* transaction; is_new = cursor.rowcount > 0.
CallMarkExec(c) ==
    /\ cpc[c] = "mark_processed"
    /\ db' = [db EXCEPT !.rows = InsertOrIgnore(db.rows, carg[c].topic, carg[c].event_id)]
    /\ cres' = [cres EXCEPT ![c] = Returned(IsNew(db.rows, carg[c].topic, carg[c].event_id))]
    /\ cpc' = [cpc EXCEPT ![c] = "mark_return"]
    /\ UNCHANGED <<opens, carg, ncalls, ret, reopened>>
    /\ UNCHANGED poolVars

\* mark_processed line 110: return is_new
CallMarkReturn(c) ==
    /\ cpc[c] = "mark_return"
    /\ ret' = [ret EXCEPT ![carg[c]] =
                 IF cres[c] = "True" THEN [@ EXCEPT !.t = @ + 1] ELSE [@ EXCEPT !.f = @ + 1]]
    /\ cpc' = [cpc EXCEPT ![c] = "idle"]
    /\ UNCHANGED <<db, opens, carg, cres, ncalls, reopened>>
    /\ UNCHANGED poolVars

NextStore ==
    \/ Open
    \/ \E c \in Callers, k \in Event : CallIsProcessed(c, k)
    \/ \E c \in Callers, k \in Event : CallMark(c, k)
    \/ \E c \in Callers : CallMarkExec(c)
    \/ \E c \in Callers : CallMarkReturn(c)

SpecStore == Init /\ [][NextStore]_vars

(***************************************************************************)
(* The read side of the Database and clear(), beside concurrent writers.   *)
(***************************************************************************)
\* A read does not change the store, so what a read returns does not depend
\* on the reads before it: each behaviour makes one read, at any point.
\* A second passes on the host of the store.
Tick ==
    /\ clock < MaxClock
    /\ clock' = clock + 1
    /\ UNCHANGED <<db, rres, wiped, ucount>>
    /\ UNCHANGED callVars
    /\ UNCHANGED <<phase, queue, putters, unfinished, running, stats, pc, cur,
                   is_new, errors, submitted, seen, base, nsub, again, sref, scopy>>

\* await database.get_all_topics()
CallGetAllTopics ==
    /\ db.table /\ rres = NoRead
    /\ rres' = [op |-> "topics", arg |-> NoTopic, val |-> GetAllTopics(db.rows)]
    /\ UNCHANGED <<db, clock, wiped, ucount>>
    /\ UNCHANGED callVars
    /\ UNCHANGED <<phase, queue, putters, unfinished, running, stats, pc, cur,
                   is_new, errors, submitted, seen, base, nsub, again, sref, scopy>>

\* await database.get_count()
CallGetCount ==
    /\ db.table /\ rres = NoRead
    /\ rres' = [op |-> "count", arg |-> NoTopic, val |-> GetCount(db.rows)]
    /\ UNCHANGED <<db, clock, wiped, ucount>>
    /\ UNCHANGED callVars
    /\ UNCHANGED <<phase, queue, putters, unfinished, running, stats, pc, cur,
                   is_new, errors, submitted, seen, base, nsub, again, sref, scopy>>

\* await database.get_events_by_topic(topic) (also main.py:161)
CallGetEvents(tf) ==
    /\ db.table /\ rres = NoRead
    /\ \E res \in GetEventsByTopic(db.rows, tf) :
            rres' = [op |-> "events", arg |-> tf, val |-> res]
    /\ UNCHANGED <<db, clock, wiped, ucount>>
    /\ UNCHANGED callVars
    /\ UNCHANGED <<phase, queue, putters, unfinished, running, stats, pc, cur,
                   is_new, errors, submitted, seen, base, nsub, again, sref, scopy>>

\* await database.clear(): DELETE FROM processed_events and commit. The
\* record of returned results starts again; a mark_processed whose insert
\* is done and whose True is not yet returned loses its row.
CallClear ==
    /\ db.table /\ ncalls < MaxCalls
    /\ db' = [db EXCEPT !.rows = <<>>]
    /\ ncalls' = ncalls + 1
    /\ ret' = [k \in Event |-> [t |-> 0, f |-> 0]]
    /\ wiped' = \E c \in Callers : cpc[c] = "mark_return" /\ cres[c] = "True"
    /\ UNCHANGED <<opens, cpc, carg, cres, reopened>>
    /\ UNCHANGED <<clock, rres, ucount>>
    /\ UNCHANGED <<phase, queue, putters, unfinished, running, stats, pc, cur,
                   is_new, errors, submitted, seen, base, nsub, again, sref, scopy>>

\* One caller writes while the reads and clear() are made.
Writer == CHOOSE c \in Callers : TRUE

NextRead ==
    \/ Open
    \/ \E k \in Submitted : CallMark(Writer, k)
    \/ CallMarkExec(Writer)
    \/ CallMarkReturn(Writer)
    \/ Tick
    \/ CallClear
    \/ CallGetAllTopics
    \/ CallGetCount
    \/ \E tf \in Filters : CallGetEvents(tf)

SpecRead == Init /\ [][NextRead]_vars

(***************************************************************************)
(* Direct use of the Database with a store that can fault.                 *)
(***************************************************************************)
\* is_processed raises: database.py:74-80 has no handler, the caller gets
\* the exception.
CallIsProcessedFault(c, k) ==
    /\ db.table /\ cpc[c] = "idle" /\ ncalls < MaxCalls
    /\ cres' = [cres EXCEPT ![c] = "error"]
    /\ carg' = [carg EXCEPT ![c] = k]
    /\ ncalls' = ncalls + 1
    /\ UNCHANGED <<db, opens, cpc, ret, reopened>>
    /\ UNCHANGED poolVars

\* mark_processed raises inside its try (connect, execute or commit): the
\* transaction is not committed; except Exception (database.py:111-113)
\* logs the error and returns False.
CallMarkFault(c) ==
    /\ cpc[c] = "mark_processed"
    /\ cres' = [cres EXCEPT ![c] = Returned(FALSE)]
    /\ cpc' = [cpc EXCEPT ![c] = "mark_return"]
    /\ UNCHANGED <<db, opens, carg, ncalls, ret, reopened>>
    /\ UNCHANGED poolVars

NextStoreFault ==
    \/ NextStore
    \/ \E c \in Callers, k \in Event : CallIsProcessedFault(c, k)
    \/ \E c \in Callers : CallMarkFault(c)

SpecStoreFault == Init /\ [][NextStoreFault]_vars

(***************************************************************************)
(* The application: lifespan, ingress and the worker pool.                 *)
(***************************************************************************)
KeyOf(ev) == [topic |-> ev.topic, event_id |-> ev.event_id]

\* Requests of up to two events (publish: one; publish_batch: min_items=1).
Batches == {<<a, b>> : a \in Submitted, b \in Submitted}

\* A restart whose new EventProcessor goes on with the counters of the old.
StartupKeepsStats ==
    /\ phase \in {"down", "stopped"}
    /\ db' = InitDb(db)
    /\ queue' = <<>> /\ putters' = <<>> /\ unfinished' = 0
    /\ stats' = stats
    /\ running' = TRUE
    /\ pc' = [w \in Workers |-> "created"]
    /\ cur' = [w \in Workers |-> NoEvent]
    /\ is_new' = [w \in Workers |-> FALSE]
    /\ errors' = [w \in Workers |-> 0]
    /\ submitted' = 0
    /\ seen' = {}
    /\ base' = Keys(db'.rows)
    /\ phase' = "up"
    /\ again' = FALSE
    /\ UNCHANGED <<nsub>>
    /\ UNCHANGED callVars
    /\ UNCHANGED snapVars
    /\ UNCHANGED readVars
    /\ UNCHANGED ucount

\* lifespan startup (main.py:44-52): Database(path), Queue(maxsize),
\* EventProcessor(database, queue) with zeroed stats, start(num_workers)
\* creating one task per worker. Also the restart of
\* tests/test_persistence.py: a new queue and processor on the same file.
Startup ==
    /\ phase \in {"down", "stopped"}
    /\ db' = InitDb(db)
    /\ queue' = <<>> /\ putters' = <<>> /\ unfinished' = 0
    /\ stats' = ZeroStats
    /\ running' = TRUE
    /\ pc' = [w \in Workers |-> "created"]
    /\ cur' = [w \in Workers |-> NoEvent]
    /\ is_new' = [w \in Workers |-> FALSE]
    /\ errors' = [w \in Workers |-> 0]
    /\ submitted' = 0
    /\ seen' = {}
    /\ base' = Keys(db'.rows)
    /\ phase' = "up"
    /\ again' = FALSE
    /\ UNCHANGED <<nsub>>
    /\ UNCHANGED callVars
    /\ UNCHANGED snapVars
    /\ UNCHANGED readVars
    /\ UNCHANGED ucount

\* A request handler puts its events (main.py:95 and 131-134): await
\* event_queue.put(event) enqueues, or suspends the handler at a full queue.
Submit(es) ==
    /\ phase = "up"
    /\ nsub + Len(es) <= MaxEvents
    /\ LET r == PutMany(queue, es) IN
        /\ queue' = r.queue
        /\ unfinished' = unfinished + (Len(r.queue) - Len(queue))
        /\ putters' = IF r.rest = <<>> THEN putters ELSE Append(putters, r.rest)
    /\ nsub' = nsub + Len(es)
    /\ submitted' = submitted + Len(es)
    /\ seen' = seen \cup {KeyOf(es[i]) : i \in DOMAIN es}
    /\ UNCHANGED <<db, phase, running, stats, pc, cur, is_new, errors, base, again>>
    /\ UNCHANGED callVars
    /\ UNCHANGED snapVars
    /\ UNCHANGED readVars
    /\ UNCHANGED ucount

\* POST /publish (main.py:81-114)
Publish(e) == Submit(<<e>>)

\* POST /publish/batch (main.py:116-146)
PublishBatch(es) == Submit(es)

\* A handler suspended in put() is woken after a get and goes on putting
\* (asyncio.Queue.put: while self.full(): await putter).
PutResume ==
    /\ phase = "up"
    /\ putters # <<>>
    /\ Len(queue) < QueueMaxSize
    /\ LET r == PutMany(queue, Head(putters)) IN
        /\ queue' = r.queue
        /\ unfinished' = unfinished + (Len(r.queue) - Len(queue))
        /\ putters' = IF r.rest = <<>> THEN Tail(putters)
                      ELSE Append(Tail(putters), r.rest)
    /\ UNCHANGED <<db, phase, running, stats, pc, cur, is_new, errors>>
    /\ UNCHANGED histVars
    /\ UNCHANGED callVars
    /\ UNCHANGED snapVars
    /\ UNCHANGED readVars
    /\ UNCHANGED ucount

\* received += 1 written back from the counters as they were before the
\* increment that ended the previous event: that increment is lost.
LoopLostUpdate(w, s) ==
    IF ~running THEN
        /\ pc' = [pc EXCEPT ![w] = "done"]
        /\ cur' = [cur EXCEPT ![w] = NoEvent]
        /\ stats' = s
        /\ queue' = queue
    ELSE IF queue = <<>> THEN
        /\ pc' = [pc EXCEPT ![w] = "get"]
        /\ cur' = [cur EXCEPT ![w] = NoEvent]
        /\ stats' = s
        /\ queue' = queue
    ELSE
        /\ pc' = [pc EXCEPT ![w] = "is_processed"]
        /\ cur' = [cur EXCEPT ![w] = Head(queue)]
        /\ stats' = [stats EXCEPT !.received = @ + 1]
        /\ queue' = Tail(queue)

\* queue.get() that hands out the first entry and leaves it in the queue.
LoopPeek(w, s) ==
    IF ~running THEN
        /\ pc' = [pc EXCEPT ![w] = "done"]
        /\ cur' = [cur EXCEPT ![w] = NoEvent]
        /\ stats' = s
        /\ queue' = queue
    ELSE IF queue = <<>> THEN
        /\ pc' = [pc EXCEPT ![w] = "get"]
        /\ cur' = [cur EXCEPT ![w] = NoEvent]
        /\ stats' = s
        /\ queue' = queue
    ELSE
        /\ pc' = [pc EXCEPT ![w] = "is_processed"]
        /\ cur' = [cur EXCEPT ![w] = Head(queue)]
        /\ stats' = [s EXCEPT !.received = @ + 1]
        /\ queue' = queue

\* queue.get() of a LIFO queue: the newest entry leaves first.
LoopLifo(w, s) ==
    IF ~running THEN
        /\ pc' = [pc EXCEPT ![w] = "done"]
        /\ cur' = [cur EXCEPT ![w] = NoEvent]
        /\ stats' = s
        /\ queue' = queue
    ELSE IF queue = <<>> THEN
        /\ pc' = [pc EXCEPT ![w] = "get"]
        /\ cur' = [cur EXCEPT ![w] = NoEvent]
        /\ stats' = s
        /\ queue' = queue
    ELSE
        /\ pc' = [pc EXCEPT ![w] = "is_processed"]
        /\ cur' = [cur EXCEPT ![w] = queue[Len(queue)]]
        /\ stats' = [s EXCEPT !.received = @ + 1]
        /\ queue' = SubSeq(queue, 1, Len(queue) - 1)

\* A worker that takes the dedup id from the payload as well as from
\* event_id.
LoopKeyFromPayload(w, s) ==
    IF ~running THEN
        /\ pc' = [pc EXCEPT ![w] = "done"]
        /\ cur' = [cur EXCEPT ![w] = NoEvent]
        /\ stats' = s
        /\ queue' = queue
    ELSE IF queue = <<>> THEN
        /\ pc' = [pc EXCEPT ![w] = "get"]
        /\ cur' = [cur EXCEPT ![w] = NoEvent]
        /\ stats' = s
        /\ queue' = queue
    ELSE
        /\ pc' = [pc EXCEPT ![w] = "is_processed"]
        /\ cur' = [cur EXCEPT ![w] =
                    IF "payload" \in DOMAIN Head(queue) /\ Head(queue).payload = "p2"
                    THEN [Head(queue) EXCEPT !.event_id = "e2"]
                    ELSE Head(queue)]
        /\ stats' = [s EXCEPT !.received = @ + 1]
        /\ queue' = Tail(queue)

\* A worker that has not counted the event in received when it calls
\* is_processed.
LoopCountsLater(w, s) ==
    IF ~running THEN
        /\ pc' = [pc EXCEPT ![w] = "done"]
        /\ cur' = [cur EXCEPT ![w] = NoEvent]
        /\ stats' = s
        /\ queue' = queue
    ELSE IF queue = <<>> THEN
        /\ pc' = [pc EXCEPT ![w] = "get"]
        /\ cur' = [cur EXCEPT ![w] = NoEvent]
        /\ stats' = s
        /\ queue' = queue
    ELSE
        /\ pc' = [pc EXCEPT ![w] = "is_processed"]
        /\ cur' = [cur EXCEPT ![w] = Head(queue)]
        /\ stats' = s
        /\ queue' = Tail(queue)

\* _worker lines 66-75 up to the next suspension, entered with stats s: the
\* loop test, queue.get() (which returns at once when the queue is not
\* empty), and _process_event line 99 (received += 1) up to the await of
\* is_processed at line 102. No other task runs in between.
Loop(w, s) ==
    IF ~running THEN
        /\ pc' = [pc EXCEPT ![w] = "done"]
        /\ cur' = [cur EXCEPT ![w] = NoEvent]
        /\ stats' = s
        /\ queue' = queue
    ELSE IF queue = <<>> THEN
        /\ pc' = [pc EXCEPT ![w] = "get"]
        /\ cur' = [cur EXCEPT ![w] = NoEvent]
        /\ stats' = s
        /\ queue' = queue
    ELSE
        /\ pc' = [pc EXCEPT ![w] = "is_processed"]
        /\ cur' = [cur EXCEPT ![w] = Head(queue)]
        /\ stats' = [s EXCEPT !.received = @ + 1]
        /\ queue' = Tail(queue)

\* The task created by start() runs for the first time.
WorkerStart(w) ==
    /\ phase = "up" /\ pc[w] = "created"
    /\ Loop(w, stats)
    /\ UNCHANGED <<db, phase, putters, unfinished, running, is_new, errors>>
    /\ UNCHANGED histVars
    /\ UNCHANGED callVars
    /\ UNCHANGED snapVars
    /\ UNCHANGED readVars
    /\ UNCHANGED ucount

\* A worker suspended in queue.get() is woken by a put and takes the item.
Dequeue(w) ==
    /\ phase = "up" /\ pc[w] = "get" /\ queue # <<>>
    /\ Loop(w, stats)
    /\ UNCHANGED <<db, phase, putters, unfinished, running, is_new, errors>>
    /\ UNCHANGED histVars
    /\ UNCHANGED callVars
    /\ UNCHANGED snapVars
    /\ UNCHANGED readVars
    /\ UNCHANGED ucount

\* A worker that leaves its loop at the timeout (break in the place of
\* continue at line 79).
GetTimeoutBreaks(w) ==
    /\ phase = "up" /\ pc[w] = "get" /\ queue = <<>>
    /\ pc' = [pc EXCEPT ![w] = "done"]
    /\ UNCHANGED <<cur, stats, queue>>
    /\ UNCHANGED <<db, phase, putters, unfinished, running, is_new, errors>>
    /\ UNCHANGED histVars
    /\ UNCHANGED callVars
    /\ UNCHANGED snapVars
    /\ UNCHANGED readVars
    /\ UNCHANGED ucount

\* wait_for times out on the empty queue (lines 77-79): continue, and the
\* worker waits again.
GetTimeout(w) ==
    /\ phase = "up" /\ pc[w] = "get" /\ queue = <<>>
    /\ Loop(w, stats)
    /\ UNCHANGED <<db, phase, putters, unfinished, running, is_new, errors>>
    /\ UNCHANGED histVars
    /\ UNCHANGED callVars
    /\ UNCHANGED snapVars
    /\ UNCHANGED readVars
    /\ UNCHANGED ucount

\* A worker that calls mark_processed whatever is_processed answered.
IsProcessedReturnAlwaysMarks(w) ==
    /\ phase = "up" /\ pc[w] = "is_processed"
    /\ pc' = [pc EXCEPT ![w] = "mark_processed"]
    /\ UNCHANGED <<cur, stats, queue, unfinished>>
    /\ UNCHANGED <<db, phase, putters, running, is_new, errors>>
    /\ UNCHANGED histVars
    /\ UNCHANGED callVars
    /\ UNCHANGED snapVars
    /\ UNCHANGED readVars
    /\ UNCHANGED ucount

\* is_processed returns (line 102). True: duplicate_dropped += 1, return,
\* task_done, next iteration. False: mark_processed is called (line 122).
IsProcessedReturn(w) ==
    /\ phase = "up" /\ pc[w] = "is_processed"
    /\ IF IsProcessed(db.rows, cur[w].topic, cur[w].event_id)
       THEN /\ Loop(w, [stats EXCEPT !.duplicate_dropped = @ + 1])
            /\ unfinished' = unfinished - 1
       ELSE /\ pc' = [pc EXCEPT ![w] = "mark_processed"]
            /\ UNCHANGED <<cur, stats, queue, unfinished>>
    /\ UNCHANGED <<db, phase, putters, running, is_new, errors>>
    /\ UNCHANGED histVars
    /\ UNCHANGED callVars
    /\ UNCHANGED snapVars
    /\ UNCHANGED readVars
    /\ UNCHANGED ucount

\* mark_processed lines 95-103 for a worker: INSERT OR IGNORE and commit run
\* in the connection's thread; the result is not yet back in the task.
MarkExec(w) ==
    /\ phase = "up" /\ pc[w] = "mark_processed"
    /\ db' = [db EXCEPT !.rows = InsertOrIgnore(db.rows, cur[w].topic, cur[w].event_id)]
    /\ is_new' = [is_new EXCEPT ![w] = IsNew(db.rows, cur[w].topic, cur[w].event_id)]
    /\ pc' = [pc EXCEPT ![w] = "mark_return"]
    /\ UNCHANGED <<phase, queue, putters, unfinished, running, stats, cur, errors>>
    /\ UNCHANGED histVars
    /\ UNCHANGED callVars
    /\ UNCHANGED snapVars
    /\ UNCHANGED readVars
    /\ UNCHANGED ucount

\* A lost race taken back from unique_processed.
CountedNet(s, marked) ==
    IF marked THEN [s EXCEPT !.unique_processed = @ + 1]
    ELSE [s EXCEPT !.duplicate_dropped = @ + 1, !.unique_processed = @ - 1]

\* _process_event lines 124-136 after mark_processed returned.
Counted(s, marked) ==
    IF marked THEN [s EXCEPT !.unique_processed = @ + 1]
    ELSE [s EXCEPT !.duplicate_dropped = @ + 1]

\* mark_processed returns is_new to the worker (line 122); the counter is
\* updated, task_done (line 75), next iteration. ucount records for which
\* key unique_processed was incremented.
MarkReturn(w) ==
    /\ phase = "up" /\ pc[w] = "mark_return"
    /\ Loop(w, Counted(stats, is_new[w]))
    /\ unfinished' = unfinished - 1
    /\ is_new' = [is_new EXCEPT ![w] = FALSE]
    /\ ucount' = [ucount EXCEPT ![KeyOf(cur[w])] =
                    @ + Counted(stats, is_new[w]).unique_processed
                      - stats.unique_processed]
    /\ UNCHANGED <<db, phase, putters, running, errors>>
    /\ UNCHANGED histVars
    /\ UNCHANGED callVars
    /\ UNCHANGED snapVars
    /\ UNCHANGED readVars

\* stop() lines 49-54: running = False and task.cancel() for every task.
Stop ==
    /\ phase = "up"
    /\ running' = FALSE
    /\ phase' = "stopping"
    /\ UNCHANGED <<db, queue, putters, unfinished, stats, pc, cur, is_new, errors>>
    /\ UNCHANGED histVars
    /\ UNCHANGED callVars
    /\ UNCHANGED snapVars
    /\ UNCHANGED readVars
    /\ UNCHANGED ucount

\* A worker waiting in queue.get() is not reached by the cancellation.
CancelledExceptInGet(w) ==
    /\ phase = "stopping" /\ pc[w] \notin {"done", "get"}
    /\ \A v \in Workers : v < w => pc[v] = "done"
    /\ pc' = [pc EXCEPT ![w] = "done"]
    /\ cur' = [cur EXCEPT ![w] = NoEvent]
    /\ is_new' = [is_new EXCEPT ![w] = FALSE]
    /\ UNCHANGED <<db, phase, queue, putters, unfinished, running, stats, errors>>
    /\ UNCHANGED histVars
    /\ UNCHANGED callVars
    /\ UNCHANGED snapVars
    /\ UNCHANGED readVars
    /\ UNCHANGED ucount

\* CancelledError is raised in a cancelled task at the await it is suspended
\* in (queue.get, is_processed or mark_processed); no handler below _worker
\* catches it, and _worker breaks out of its loop (lines 80-82). The loop
\* resumes the cancelled tasks in the order stop() cancelled them.
Cancelled(w) ==
    /\ phase = "stopping" /\ pc[w] # "done"
    /\ \A v \in Workers : v < w => pc[v] = "done"
    /\ pc' = [pc EXCEPT ![w] = "done"]
    /\ cur' = [cur EXCEPT ![w] = NoEvent]
    /\ is_new' = [is_new EXCEPT ![w] = FALSE]
    /\ UNCHANGED <<db, phase, queue, putters, unfinished, running, stats, errors>>
    /\ UNCHANGED histVars
    /\ UNCHANGED callVars
    /\ UNCHANGED snapVars
    /\ UNCHANGED readVars
    /\ UNCHANGED ucount

\* A stop() that returns without waiting for the cancelled tasks to end.
StopReturnEarly ==
    /\ phase = "stopping"
    /\ phase' = "stopped"
    /\ UNCHANGED <<db, queue, putters, unfinished, running, stats, pc, cur, is_new, errors>>
    /\ UNCHANGED histVars
    /\ UNCHANGED callVars
    /\ UNCHANGED snapVars
    /\ UNCHANGED readVars
    /\ UNCHANGED ucount

\* stop() lines 56-57: gather returns when every task has ended; tasks.clear().
StopReturn ==
    /\ phase = "stopping"
    /\ \A w \in Workers : pc[w] = "done"
    /\ phase' = "stopped"
    /\ UNCHANGED <<db, queue, putters, unfinished, running, stats, pc, cur, is_new, errors>>
    /\ UNCHANGED histVars
    /\ UNCHANGED callVars
    /\ UNCHANGED snapVars
    /\ UNCHANGED readVars
    /\ UNCHANGED ucount

Next ==
    \/ Startup
    \/ \E e \in Submitted : Publish(e)
    \/ \E es \in Batches : PublishBatch(es)
    \/ PutResume
    \/ \E w \in Workers : WorkerStart(w)
    \/ \E w \in Workers : Dequeue(w)
    \/ \E w \in Workers : GetTimeout(w)
    \/ \E w \in Workers : IsProcessedReturn(w)
    \/ \E w \in Workers : MarkExec(w)
    \/ \E w \in Workers : MarkReturn(w)
    \/ Stop
    \/ \E w \in Workers : Cancelled(w)
    \/ StopReturn

Spec == Init /\ [][Next]_vars

(***************************************************************************)
(* The pool under the scheduling of the event loop: a cancelled task is    *)
(* scheduled to run (Task.cancel uses call_soon), and stop(), waiting in   *)
(* gather, is resumed once every task has ended.                           *)
(***************************************************************************)
SpecLive ==
    /\ Spec
    /\ \A w \in Workers : WF_vars(Cancelled(w))
    /\ WF_vars(StopReturn)

(***************************************************************************)
(* The pool with workers that are scheduled fairly and a store that        *)
(* answers: a worker task that is ready to run (created by start(), woken  *)
(* in queue.get() by a put, or resumed by the answer of the store at lines *)
(* 102 and 122) is run by the event loop. Requests and stop() are under no *)
(* obligation to happen.                                                   *)
(***************************************************************************)
\* The steps of worker task w while the pool runs (_worker lines 66-75).
WorkerStep(w) ==
    \/ WorkerStart(w)
    \/ Dequeue(w)
    \/ IsProcessedReturn(w)
    \/ MarkExec(w)
    \/ MarkReturn(w)

SpecFair ==
    /\ Spec
    /\ \A w \in Workers : WF_vars(WorkerStep(w))

(***************************************************************************)
(* The pool with stop() called again after it has returned.                *)
(***************************************************************************)
\* stop() lines 47-57 on a processor whose stop() has returned: running =
\* False again; self.tasks was cleared at line 57, so the loop of lines 53-54
\* cancels nothing and gather() of no tasks is done at once: the call runs
\* to its end without a suspension.
StopAgain ==
    /\ phase = "stopped"
    /\ running' = FALSE
    /\ again' = TRUE
    /\ UNCHANGED <<db, phase, queue, putters, unfinished, stats, pc, cur, is_new, errors>>
    /\ UNCHANGED <<submitted, seen, base, nsub>>
    /\ UNCHANGED callVars
    /\ UNCHANGED snapVars
    /\ UNCHANGED readVars
    /\ UNCHANGED ucount

NextStop ==
    \/ Next
    \/ StopAgain

SpecStop == Init /\ [][NextStop]_vars

(***************************************************************************)
(* The same with a store that can fault (I/O error, locked database).      *)
(***************************************************************************)
\* The exception ends the worker task instead of being caught in its loop.
IsProcessedFaultEndsTask(w) ==
    /\ phase = "up" /\ pc[w] = "is_processed"
    /\ errors' = [errors EXCEPT ![w] = @ + 1]
    /\ pc' = [pc EXCEPT ![w] = "done"]
    /\ cur' = [cur EXCEPT ![w] = NoEvent]
    /\ UNCHANGED <<db, phase, queue, putters, unfinished, running, stats, is_new>>
    /\ UNCHANGED histVars
    /\ UNCHANGED callVars
    /\ UNCHANGED snapVars
    /\ UNCHANGED readVars
    /\ UNCHANGED ucount

\* is_processed raises (database.py:74-80 has no handler; processor.py:102
\* is outside the try of _process_event): the exception reaches _worker's
\* except Exception (lines 83-84), which logs it; task_done is skipped.
IsProcessedFault(w) ==
    /\ phase = "up" /\ pc[w] = "is_processed"
    /\ errors' = [errors EXCEPT ![w] = @ + 1]
    /\ Loop(w, stats)
    /\ UNCHANGED <<db, phase, putters, unfinished, running, is_new>>
    /\ UNCHANGED histVars
    /\ UNCHANGED callVars
    /\ UNCHANGED snapVars
    /\ UNCHANGED readVars
    /\ UNCHANGED ucount

\* mark_processed raises inside its try: the except branch (database.py:
\* 111-113) logs the error and returns False; nothing was committed. The
\* worker takes the False as a lost race (processor.py:130-136).
MarkFault(w) ==
    /\ phase = "up" /\ pc[w] = "mark_processed"
    /\ errors' = [errors EXCEPT ![w] = @ + 1]
    /\ Loop(w, Counted(stats, FALSE))
    /\ unfinished' = unfinished - 1
    /\ UNCHANGED <<db, phase, putters, running, is_new>>
    /\ UNCHANGED histVars
    /\ UNCHANGED callVars
    /\ UNCHANGED snapVars
    /\ UNCHANGED readVars
    /\ UNCHANGED ucount

NextFault ==
    \/ Next
    \/ \E w \in Workers : IsProcessedFault(w)
    \/ \E w \in Workers : MarkFault(w)

SpecFault == Init /\ [][NextFault]_vars

(***************************************************************************)
(* The pool with an existence pre-check that cannot be relied upon.        *)
(***************************************************************************)
\* is_processed answers False whatever the store holds (the pre-check is
\* skipped, or its answer is stale): the worker goes on to mark_processed
\* (processor.py:102-104 not taken, line 122 reached).
IsProcessedStale(w) ==
    /\ phase = "up" /\ pc[w] = "is_processed"
    /\ pc' = [pc EXCEPT ![w] = "mark_processed"]
    /\ UNCHANGED <<db, phase, queue, putters, unfinished, running, stats, cur,
                   is_new, errors>>
    /\ UNCHANGED histVars
    /\ UNCHANGED callVars
    /\ UNCHANGED snapVars
    /\ UNCHANGED readVars
    /\ UNCHANGED ucount

NextSkip ==
    \/ Next
    \/ \E w \in Workers : IsProcessedStale(w)

SpecSkip == Init /\ [][NextSkip]_vars

(***************************************************************************)
(* The pool fed with events that differ in what is not their key.          *)
(***************************************************************************)
\* models.py Event: timestamp, source and payload, taken together.
Payloads == {"p1", "p2"}

WithPayload(k, p) == [topic |-> k.topic, event_id |-> k.event_id, payload |-> p]

NextPayload ==
    \/ Startup
    \/ \E e \in Submitted, p \in Payloads : Publish(WithPayload(e, p))
    \/ PutResume
    \/ \E w \in Workers : WorkerStart(w)
    \/ \E w \in Workers : Dequeue(w)
    \/ \E w \in Workers : GetTimeout(w)
    \/ \E w \in Workers : IsProcessedReturn(w)
    \/ \E w \in Workers : MarkExec(w)
    \/ \E w \in Workers : MarkReturn(w)

SpecPayload == Init /\ [][NextPayload]_vars

(***************************************************************************)
(* GET /stats and the dict that EventProcessor.get_stats() hands out.      *)
(***************************************************************************)
StatKeys == {"received", "unique_processed", "duplicate_dropped"}

\* get_stats returning self.stats itself, the live dict.
GetStatsLive(s) == [ref |-> "self", copy |-> ZeroStats]

\* get_stats (processor.py:146-148): self.stats.copy() builds a new dict
\* with the items of self.stats (ints, immutable) and returns it.
GetStats(s) == [ref |-> "copy", copy |-> s]

\* The dict the handler's local refers to.
View == IF sref = "self" THEN stats ELSE scopy

\* The /stats handler calls processor.get_stats() (main.py:186) and suspends
\* in await database.get_all_topics() (line 187) holding the result.
StatsCall ==
    /\ phase = "up" /\ sref = "none"
    /\ LET r == GetStats(stats) IN
        /\ sref' = r.ref
        /\ scopy' = r.copy
    /\ UNCHANGED <<db, phase, queue, putters, unfinished, running, stats, pc,
                   cur, is_new, errors>>
    /\ UNCHANGED histVars
    /\ UNCHANGED callVars
    /\ UNCHANGED readVars
    /\ UNCHANGED ucount

\* The holder of the returned dict assigns to one of its items (once per
\* dict: a second assignment shows nothing the first does not).
SnapshotWrite(f) ==
    /\ sref # "none"
    /\ \A g \in StatKeys : View[g] # -1
    /\ IF sref = "self"
       THEN stats' = [stats EXCEPT ![f] = -1] /\ scopy' = scopy
       ELSE scopy' = [scopy EXCEPT ![f] = -1] /\ stats' = stats
    /\ UNCHANGED <<db, phase, queue, putters, unfinished, running, pc, cur,
                   is_new, errors, sref>>
    /\ UNCHANGED histVars
    /\ UNCHANGED callVars
    /\ UNCHANGED readVars
    /\ UNCHANGED ucount

\* The handler builds StatsResponse from the dict (main.py:190-196) and
\* returns; the dict is dropped.
StatsRespond ==
    /\ sref # "none"
    /\ sref' = "none"
    /\ scopy' = ZeroStats
    /\ UNCHANGED <<db, phase, queue, putters, unfinished, running, stats, pc,
                   cur, is_new, errors>>
    /\ UNCHANGED histVars
    /\ UNCHANGED callVars
    /\ UNCHANGED readVars
    /\ UNCHANGED ucount

NextStats ==
    \/ Startup
    \/ \E e \in Submitted : Publish(e)
    \/ PutResume
    \/ \E w \in Workers : WorkerStart(w)
    \/ \E w \in Workers : Dequeue(w)
    \/ \E w \in Workers : GetTimeout(w)
    \/ \E w \in Workers : IsProcessedReturn(w)
    \/ \E w \in Workers : MarkExec(w)
    \/ \E w \in Workers : MarkReturn(w)
    \/ StatsCall
    \/ \E f \in StatKeys : SnapshotWrite(f)
    \/ StatsRespond

SpecStats == Init /\ [][NextStats]_vars

(***************************************************************************)
(* Claims about the Database, checked on its direct use.                   *)
(***************************************************************************)
MarkInFlight(k) ==
    \E c \in Callers : cpc[c] \in {"mark_processed", "mark_return"} /\ carg[c] = k

\* C1: of the concurrent mark_processed calls on a key that was not in the
\* store, exactly one returns True and all the others return False, in every
\* interleaving: never more than one True, and once no call on the key is in
\* flight, exactly one True among the calls that returned.
C1_ExactlyOneTrue ==
    \A k \in Event :
        /\ ret[k].t <= 1
        /\ (~MarkInFlight(k) /\ ret[k].t + ret[k].f >= 1) => ret[k].t = 1

\* Two calls on one key in flight together, both executed: one got True, the
\* other False.
C1_Witness ==
    \E c1 \in Callers, c2 \in Callers :
        /\ c1 # c2 /\ carg[c1] = carg[c2]
        /\ cpc[c1] = "mark_return" /\ cpc[c2] = "mark_return"
        /\ cres[c1] = "True" /\ cres[c2] = "False"

\* C4: a record whose mark_processed returned True stays in the store when
\* the file is opened again by a new Database: is_processed reports it,
\* mark_processed would return False, and _init_db removes no row.
C4_Durable ==
    /\ \A k \in Event :
        ret[k].t >= 1 =>
            /\ db.table
            /\ IsProcessed(db.rows, k.topic, k.event_id)
            /\ ~IsNew(db.rows, k.topic, k.event_id)
    /\ \A k \in reopened : ret[k].t = 1

\* A key was marked, the file was opened again, and a later mark_processed
\* on the key returned False.
C4_Witness ==
    \E k \in reopened : opens = 2 /\ ret[k].f >= 1 /\ ~MarkInFlight(k)

\* C6 as claimed: a False from mark_processed means the record already
\* existed (a fault is raised, never returned as False).
C6_Claim ==
    \A c \in Callers :
        (cpc[c] = "mark_return" /\ cres[c] = "False") =>
            IsProcessed(db.rows, carg[c].topic, carg[c].event_id)

\* C10: each mark_processed takes effect in one store step; in the sequence
\* of these steps a call returns True exactly when no record for its key
\* existed before, the record exists after it, and a call on a key that is
\* already recorded leaves the rows unchanged.
C10_MarkContract ==
    [][\A c \in Callers :
        CallMarkExec(c) =>
            LET t == carg[c].topic
                e == carg[c].event_id
            IN  /\ (cres'[c] = "True") <=> ~IsProcessed(db.rows, t, e)
                /\ IsProcessed(db'.rows, t, e)
                /\ IsProcessed(db.rows, t, e) => db'.rows = db.rows]_vars

\* A key was marked (True) and marked again (False), with a second key in
\* the store.
C10_Witness ==
    \E k \in Event :
        /\ ret[k].t = 1 /\ ret[k].f = 1 /\ ~MarkInFlight(k)
        /\ Len(db.rows) = 2

(***************************************************************************)
(* Claims about the worker pool.                                           *)
(***************************************************************************)
\* A worker between dequeuing an event and the end of its protocol.
MidProtocol == {"is_processed", "mark_processed", "mark_return"}

\* Every submitted event was processed and every worker waits for the next.
Drained ==
    /\ phase = "up"
    /\ queue = <<>> /\ putters = <<>>
    /\ \A w \in Workers : pc[w] = "get"

C3_Claim ==
    (queue = <<>> /\ \A w \in Workers : pc[w] \notin MidProtocol) =>
        stats.received = stats.unique_processed + stats.duplicate_dropped

\* C5 as claimed: a submit at a full queue is rejected at once, so no
\* request is ever suspended in put() holding an event.
C5_Claim == putters = <<>>

\* C7 as claimed: the step in which a worker meets a store fault increments
\* neither unique_processed nor duplicate_dropped and puts nothing back on
\* the queue.
C7_Claim ==
    [][\A w \in Workers :
        errors'[w] = errors[w] + 1 =>
            /\ stats'.unique_processed = stats.unique_processed
            /\ stats'.duplicate_dropped = stats.duplicate_dropped
            /\ Len(queue') <= Len(queue)]_vars

\* C8 as claimed: stop() lets the protocol executions in flight complete, so
\* no worker task ends while it is mid-protocol.
C8_Claim ==
    [][\A w \in Workers : pc[w] \in MidProtocol => pc'[w] # "done"]_vars

\* C9: a store fault (or any exception) while processing an event never
\* ends a worker: until stop() all num_workers tasks are alive, and the
\* worker that met the fault is back in its loop, waiting or processing.
C9_WorkersSurvive ==
    phase = "up" =>
        /\ Cardinality({w \in Workers : pc[w] \notin {"none", "done"}}) = NumWorkers
        /\ \A w \in Workers : errors[w] >= 1 => pc[w] \in {"get"} \cup MidProtocol

\* A worker that met a fault is processing a later event.
C9_Witness ==
    \E w \in Workers :
        phase = "up" /\ errors[w] >= 1 /\ pc[w] = "mark_return"

(***************************************************************************)
(* Further claims about the Database.                                      *)
(***************************************************************************)
\* C11: deduplication is per topic: a mark_processed of (t, e) returns True
\* whenever (t, e) itself is not recorded, whatever is recorded for e on
\* another topic, and it leaves what is_processed reports for e on every
\* other topic unchanged.
C11_TopicScoped ==
    [][\A c \in Callers :
        CallMarkExec(c) =>
            LET t == carg[c].topic
                e == carg[c].event_id
            IN  /\ (\A i \in DOMAIN db.rows :
                        ~(db.rows[i].topic = t /\ db.rows[i].event_id = e))
                    => cres'[c] = "True"
                /\ \A t2 \in Topics \ {t} :
                        IsProcessed(db'.rows, t2, e) = IsProcessed(db.rows, t2, e)]_vars

\* One event_id was marked on both topics and both calls returned True.
C11_Witness ==
    \E e \in EventIds :
        /\ \A t \in Topics : ret[[topic |-> t, event_id |-> e]].t = 1
        /\ \A t \in Topics : IsProcessed(db.rows, t, e)

\* C12: in every reachable state of the store, whatever the interleaving of
\* the concurrent writers, no two records share the same (topic, event_id).
C12_UniquePairs ==
    \A i, j \in DOMAIN db.rows :
        (db.rows[i].topic = db.rows[j].topic
            /\ db.rows[i].event_id = db.rows[j].event_id) => i = j

\* Two callers raced on one key: both INSERT OR IGNORE statements ran, one
\* call returned True and the other False, and the store holds several records.
C12_Witness ==
    /\ Len(db.rows) >= 2
    /\ \E k \in Event : ret[k].t = 1 /\ ret[k].f >= 1

(***************************************************************************)
(* Further claims about the worker pool.                                   *)
(***************************************************************************)
\* C13: a new EventProcessor started on the store of a stopped one begins
\* with all three counters at zero, and an event whose key the store already
\* held at that start is counted in duplicate_dropped and never in
\* unique_processed: its worker never goes on to mark_processed.
C13_RestartDedup ==
    [][/\ (phase # "up" /\ phase' = "up") => stats' = ZeroStats
       /\ \A w \in Workers :
            /\ (IsProcessedReturn(w) /\ KeyOf(cur[w]) \in base) =>
                    /\ stats'.duplicate_dropped = stats.duplicate_dropped + 1
                    /\ stats'.unique_processed = stats.unique_processed
            /\ (cur'[w] # NoEvent /\ KeyOf(cur'[w]) \in base) =>
                    pc'[w] \notin {"mark_processed", "mark_return"}]_vars

\* After a restart the event marked by the first processor was submitted
\* again and processed: one duplicate, nothing unique.
C13_Witness ==
    /\ Drained
    /\ base # {} /\ submitted = 1 /\ seen \subseteq base
    /\ stats.received = 1
    /\ stats.duplicate_dropped = 1 /\ stats.unique_processed = 0

\* C14: get_stats() returns a copy of the three counters: at the call the
\* returned dict equals the processor's counters; while a caller holds it,
\* no step of the workers or of the ingress (a step that moves a worker or
\* the queue) changes it; and a step that does change it, the holder's own
\* assignment, leaves the processor's counters as they are.
C14_SnapshotIsCopy ==
    [][/\ (sref = "none" /\ sref' # "none") => (View' = stats /\ stats' = stats)
       /\ (sref # "none" /\ sref' = sref) =>
            /\ (pc' # pc \/ queue' # queue) => View' = View
            /\ View' # View => stats' = stats]_vars

\* A dict returned when one event had been received is still held after a
\* second event was processed and after the holder overwrote one of its
\* items: it shows received = 1, the processor's counters show 2 and no -1.
C14_Witness ==
    /\ sref # "none"
    /\ View.received = 1 /\ View.duplicate_dropped = -1
    /\ stats.received = 2
    /\ stats.unique_processed + stats.duplicate_dropped = 2

\* C15: over the lifetime of one EventProcessor, stop() and worker faults
\* included, none of received, unique_processed and duplicate_dropped ever
\* decreases, and none is ever negative; only the construction of a new
\* EventProcessor starts them again at zero.
C15_Monotonic ==
    [][/\ \A f \in StatKeys : stats'[f] >= 0
       /\ ~(phase # "up" /\ phase' = "up") =>
            \A f \in StatKeys : stats'[f] >= stats[f]]_vars

\* A processor that counted a unique event and a duplicate and met a store
\* fault has been stopped, its counters as they were.
C15_Witness ==
    /\ phase = "stopped"
    /\ \E w \in Workers : errors[w] >= 1
    /\ stats.received >= 2
    /\ stats.unique_processed >= 1 /\ stats.duplicate_dropped >= 1

\* Events still held by requests suspended in put().
RECURSIVE PendingPuts(_)
PendingPuts(ps) == IF ps = <<>> THEN 0 ELSE Len(Head(ps)) + PendingPuts(Tail(ps))

\* C16: no counter increment of the concurrently running workers is lost,
\* whatever the interleaving of their suspension points: while the pool
\* runs, received is the number of events taken from the queue,
\* unique_processed the number of records inserted whose worker has
\* returned from mark_processed, and duplicate_dropped the number of the
\* remaining events whose worker has finished.
C16_NoLostIncrement ==
    phase = "up" =>
        /\ stats.received = submitted - Len(queue) - PendingPuts(putters)
        /\ stats.unique_processed =
                Cardinality(Keys(db.rows) \ base)
                - Cardinality({w \in Workers : pc[w] = "mark_return" /\ is_new[w]})
        /\ stats.duplicate_dropped =
                stats.received - stats.unique_processed
                - Cardinality({w \in Workers : pc[w] \in MidProtocol})

\* Two workers are mid-protocol together after a third event was counted:
\* increments of different workers interleaved.
C16_Witness ==
    /\ phase = "up"
    /\ \E v, w \in Workers : v # w /\ pc[v] \in MidProtocol /\ pc[w] \in MidProtocol
    /\ stats.received = 3
    /\ stats.unique_processed + stats.duplicate_dropped = 1

\* C17: an entry of the queue is dequeued by exactly one worker and counted
\* once in received: within the life of a processor, received grows by one
\* exactly in the steps that remove the first entry of the queue, no step
\* removes anything else, and the removed entry becomes the current event
\* of one worker while every other worker keeps its event and its place.
C17_DequeuedOnce ==
    [][~(phase # "up" /\ phase' = "up") =>
        /\ stats'.received \in {stats.received, stats.received + 1}
        /\ Len(queue') < Len(queue) => queue' = Tail(queue)
        /\ (stats'.received = stats.received + 1)
                <=> (queue # <<>> /\ queue' = Tail(queue))
        /\ (queue # <<>> /\ queue' = Tail(queue)) =>
                \E w \in Workers :
                    /\ pc'[w] = "is_processed" /\ cur'[w] = Head(queue)
                    /\ \A v \in Workers \ {w} : pc'[v] = pc[v] /\ cur'[v] = cur[v]]_vars

\* Two entries of the same event were taken by two different workers, one
\* each: both are processing it, received = 2, nothing is left in the queue.
C17_Witness ==
    /\ phase = "up" /\ queue = <<>> /\ putters = <<>>
    /\ submitted = 2 /\ stats.received = 2
    /\ \E v, w \in Workers :
            v # w /\ pc[v] = "is_processed" /\ pc[w] = "is_processed" /\ cur[v] = cur[w]

\* C18: events leave the queue in the order they were enqueued: within the
\* life of a processor every step that changes the queue either appends
\* behind all entries already there, or removes the oldest entry and hands
\* that entry to a worker; so an entry enqueued before another is dequeued
\* before it.
C18_Fifo ==
    [][~(phase # "up" /\ phase' = "up") =>
        \/ queue' = queue
        \/ /\ Len(queue') > Len(queue)
           /\ SubSeq(queue', 1, Len(queue)) = queue
        \/ /\ queue # <<>> /\ queue' = Tail(queue)
           /\ \E w \in Workers : pc'[w] = "is_processed" /\ cur'[w] = Head(queue)]_vars

\* Of two different events enqueued one after the other, the first has been
\* dequeued and is being processed, the second is still in the queue.
C18_Witness ==
    /\ phase = "up" /\ putters = <<>>
    /\ submitted = 2 /\ stats.received = 1
    /\ Len(queue) = 1
    /\ \E w \in Workers : pc[w] \in MidProtocol /\ cur[w] # queue[1]
    /\ \E w \in Workers : pc[w] = "created"

\* C19: the outcome does not depend on the existence pre-check: whether
\* is_processed answers accurately or False (skipped, stale), for every
\* input sequence and interleaving the drained pool has the same store
\* contents and the same counters, those fixed by the input alone: the
\* store holds the keys it held before plus the keys submitted,
\* unique_processed is the number of new keys and duplicate_dropped the
\* number of all other events.
C19_PrecheckIrrelevant ==
    Drained =>
        /\ Keys(db.rows) = base \cup seen
        /\ Len(db.rows) = Cardinality(base \cup seen)
        /\ stats.unique_processed = Cardinality(seen \ base)
        /\ stats.duplicate_dropped = submitted - Cardinality(seen \ base)

\* A worker whose pre-check answered False for a key the store held before
\* this processor started has called mark_processed and got False.
C19_Witness ==
    \E w \in Workers :
        /\ pc[w] = "mark_return" /\ ~is_new[w]
        /\ KeyOf(cur[w]) \in base

\* C20: stop() always terminates: in whatever state it is called, also
\* with every worker waiting in queue.get() on an empty queue, it
\* eventually returns, and then every worker task has ended.
C20_StopTerminates ==
    /\ (phase = "stopping") ~> (phase = "stopped")
    /\ [](phase = "stopped" => \A w \in Workers : pc[w] = "done")

\* stop() has been called and has not returned; every worker is waiting in
\* queue.get() and the queue is empty.
C20_Witness ==
    /\ phase = "stopping"
    /\ queue = <<>>
    /\ \A w \in Workers : pc[w] = "get"

(***************************************************************************)
(* Claims about the read side of the Database.                             *)
(***************************************************************************)
\* C21: is_processed is read-only: a call with any arguments, in any state
\* of the store and interleaved with any writers, leaves the records of the
\* store and all three counters unchanged.
C21_IsProcessedReadOnly ==
    [][\A c \in Callers, k \in Event :
        CallIsProcessed(c, k) => (db' = db /\ stats' = stats)]_vars

\* is_processed answered True for a key while the mark_processed of another
\* caller on that key was in flight, its insert done and its result not yet
\* returned; no mark_processed on the key has returned.
C21_Witness ==
    \E c, d \in Callers :
        /\ c # d /\ carg[c] = carg[d] /\ carg[c] # NoEvent
        /\ cpc[c] = "idle" /\ cres[c] = "True"
        /\ cpc[d] = "mark_return"
        /\ ret[carg[c]].t + ret[carg[c]].f = 0
        /\ Len(db.rows) = 1

\* C22: get_all_topics returns exactly the set of the topics that have at
\* least one record in the store: none without a record, none missing, and
\* the DISTINCT selection it is built from names no topic twice.
C22_AllTopics ==
    [][CallGetAllTopics =>
        /\ rres'.val = {t \in Topics : \E i \in DOMAIN db.rows : db.rows[i].topic = t}
        /\ LET res == SelectDistinctTopic(db.rows)
           IN  \A i, j \in DOMAIN res : res[i] = res[j] => i = j]_vars

\* The store holds two records of one topic and one of another, and
\* get_all_topics returned the two topics.
C22_Witness ==
    /\ rres.op = "topics" /\ rres.val = Topics
    /\ \E i, j \in DOMAIN db.rows : i # j /\ db.rows[i].topic = db.rows[j].topic
    /\ {db.rows[i].topic : i \in DOMAIN db.rows} = Topics

\* No mark_processed has inserted a record and not yet returned, and no
\* clear() removed the record of such a call since the counting began.
Settled ==
    /\ ~wiped
    /\ \A c \in Callers : ~(cpc[c] = "mark_return" /\ cres[c] = "True")

Reverse(s) == [i \in 1..Len(s) |-> s[Len(s) + 1 - i]]

\* C24 as claimed: get_events_by_topic returns every record, or with a
\* topic filter the records of that topic, newest first: a record created
\* by a later mark_processed call comes before every record created by an
\* earlier one.
C24_Claim ==
    [][\A tf \in Topics \cup {NoTopic} :
        CallGetEvents(tf) => rres'.val = Reverse(Where(db.rows, tf))]_vars

(***************************************************************************)
(* Further claims about the protocol of the workers.                       *)
(***************************************************************************)
\* C25: the dedup decision depends only on (topic, event_id): the drained
\* pool's store records and counters are fixed by the keys submitted,
\* whatever payload, source or timestamp the events carried, so two runs
\* that submit the same keys with different payloads end alike; and no
\* record holds anything of the event but its key.
C25_KeyOnly ==
    /\ \A i \in DOMAIN db.rows :
            DOMAIN db.rows[i] = {"topic", "event_id", "processed_at"}
    /\ Drained =>
        /\ Keys(db.rows) = base \cup seen
        /\ stats.received = submitted
        /\ stats.unique_processed = Cardinality(seen \ base)
        /\ stats.duplicate_dropped = submitted - Cardinality(seen \ base)

\* Two events with one key and different payloads were marked by two
\* workers: one insert took effect, the other was ignored.
C25_Witness ==
    \E v, w \in Workers :
        /\ pc[v] = "mark_return" /\ pc[w] = "mark_return"
        /\ KeyOf(cur[v]) = KeyOf(cur[w])
        /\ cur[v].payload = "p1" /\ cur[w].payload = "p2"
        /\ is_new[v] /\ ~is_new[w]

\* C26: when two workers both got False from is_processed for one key
\* before either had marked it, the race is settled by the store without
\* error: one insert takes effect and the store holds one record of the
\* key, the inserts of all other workers are ignored; the worker whose
\* mark_processed returns False increments duplicate_dropped once, logs no
\* error and goes on with its loop, and the worker whose mark_processed
\* returns True increments unique_processed once.
C26_RaceResolved ==
    [][/\ \A v, w \in Workers :
            (v # w /\ pc'[v] = "mark_return" /\ pc'[w] = "mark_return"
                /\ KeyOf(cur'[v]) = KeyOf(cur'[w])) => ~(is_new'[v] /\ is_new'[w])
       /\ \A w \in Workers :
            pc'[w] = "mark_return" =>
                Cardinality({i \in DOMAIN db'.rows :
                    Matches(db'.rows[i], cur'[w].topic, cur'[w].event_id)}) = 1
       /\ \A w \in Workers :
            MarkReturn(w) =>
                /\ errors' = errors
                /\ pc'[w] \in {"get", "is_processed"}
                /\ is_new[w] =>
                    /\ stats'.unique_processed = stats.unique_processed + 1
                    /\ stats'.duplicate_dropped = stats.duplicate_dropped
                /\ ~is_new[w] =>
                    /\ stats'.duplicate_dropped = stats.duplicate_dropped + 1
                    /\ stats'.unique_processed = stats.unique_processed]_vars

\* Two workers were both given False by is_processed for one key, both
\* inserts have run and neither result is back: one insert took effect,
\* the other was ignored, and no error was logged.
C26_Witness ==
    \E v, w \in Workers :
        /\ v # w /\ pc[v] = "mark_return" /\ pc[w] = "mark_return"
        /\ KeyOf(cur[v]) = KeyOf(cur[w])
        /\ is_new[v] /\ ~is_new[w]
        /\ stats.received = 2
        /\ \A u \in Workers : errors[u] = 0

\* C27 as claimed: every dequeued event is acknowledged with task_done once
\* its protocol execution has ended, whatever the outcome, and never more
\* often than get: the count of unacknowledged entries is never negative,
\* and once the queue is empty and no worker is mid-protocol it is zero, so
\* that queue.join() returns.
C27_Claim ==
    /\ unfinished >= 0
    /\ (phase = "up" /\ queue = <<>> /\ putters = <<>>
            /\ \A w \in Workers : pc[w] \notin MidProtocol) => unfinished = 0

\* C28: unique_processed is incremented only in the step in which a
\* mark_processed call of the same worker returns True, by one; and over
\* the lifetime of the store, across all workers and all processors started
\* on it, at most one such increment is made for each (topic, event_id).
C28_UniqueOncePerKey ==
    [][/\ \A k \in Event : ucount'[k] <= 1
       /\ (~(phase # "up" /\ phase' = "up")
                /\ stats'.unique_processed # stats.unique_processed) =>
            /\ stats'.unique_processed = stats.unique_processed + 1
            /\ \E w \in Workers :
                /\ MarkReturn(w) /\ is_new[w]
                /\ ucount'[KeyOf(cur[w])] = ucount[KeyOf(cur[w])] + 1]_vars

\* A key counted as unique by one processor was submitted again to the
\* next processor on the same store and dropped there as a duplicate.
C28_Witness ==
    /\ Drained
    /\ \E k \in base \cap seen : ucount[k] = 1
    /\ stats.unique_processed = 0 /\ stats.duplicate_dropped >= 1

\* C29: when is_processed returns True for the dequeued event, the worker
\* increments duplicate_dropped by one, does not call mark_processed, and
\* leaves the records of the store and unique_processed unchanged.
C29_DuplicatePath ==
    [][\A w \in Workers :
        (IsProcessedReturn(w)
            /\ IsProcessed(db.rows, cur[w].topic, cur[w].event_id)) =>
            /\ stats'.duplicate_dropped = stats.duplicate_dropped + 1
            /\ stats'.unique_processed = stats.unique_processed
            /\ db' = db
            /\ pc'[w] \in {"get", "is_processed"}
            /\ is_new' = is_new]_vars

\* One worker alone processed an event and then the same event again: the
\* second was dropped after is_processed returned True.
C29_Witness ==
    \E w \in Workers :
        /\ phase = "up" /\ pc[w] = "get"
        /\ \A v \in Workers \ {w} : pc[v] = "created"
        /\ base = {} /\ submitted = 2 /\ Cardinality(seen) = 1
        /\ stats.unique_processed = 1 /\ stats.duplicate_dropped = 1
        /\ Len(db.rows) = 1

\* C30: for every dequeued event the received increment comes before the
\* is_processed call: while the pool runs, received counts every event
\* that has left the queue, also those whose store call faulted, so in any
\* state in which a worker has issued is_processed or mark_processed for an
\* event, received counts that event beside all events already counted as
\* unique or duplicate.
C30_ReceivedFirst ==
    phase = "up" =>
        /\ stats.received = submitted - Len(queue) - PendingPuts(putters)
        /\ stats.received >=
                stats.unique_processed + stats.duplicate_dropped
                + Cardinality({w \in Workers : pc[w] \in MidProtocol})

\* An event was counted in received, its is_processed call faulted, and the
\* next event is counted and at its store call: received = 2 with nothing
\* yet counted as unique or duplicate.
C30_Witness ==
    \E w \in Workers :
        /\ phase = "up" /\ errors[w] = 1
        /\ pc[w] \in {"is_processed", "mark_processed"}
        /\ stats.received = 2
        /\ stats.unique_processed = 0 /\ stats.duplicate_dropped = 0
        /\ \A v \in Workers \ {w} : pc[v] = "created"

(***************************************************************************)
(* Claims about the pool around stop().                                    *)
(***************************************************************************)
\* C31 as claimed: for a processor that is the only writer of the store,
\* whenever no worker is mid-protocol, unique_processed equals the number
\* of records added to the store since the processor was created, also
\* after stop() and after store faults.
C31_Claim ==
    (\A w \in Workers : pc[w] \notin MidProtocol) =>
        stats.unique_processed = Cardinality(Keys(db.rows) \ base)


\* Events put into the queue of this processor so far: those submitted less
\* those still held by requests suspended in put().
Accepted == submitted - PendingPuts(putters)

\* C32: as long as the pool is started and not stopped, every event accepted
\* into the queue is eventually dequeued and counted in received, under fair
\* scheduling of the workers and a store that answers: at any time there is
\* a later time at which the pool has been stopped or received has reached
\* the number of events accepted. Both numbers only grow while the pool
\* runs and the queue is FIFO, so the n-th event accepted has been dequeued
\* and counted by the time received reaches n.
C32_EventuallyReceived ==
    []<>(phase # "up" \/ stats.received >= Accepted)

\* Every worker was waiting on the empty queue after a first event was
\* handled, then a second event was accepted, and it has been dequeued and
\* counted.
C32_Witness ==
    /\ phase = "up" /\ Accepted = 2 /\ stats.received = 2 /\ queue = <<>>
    /\ stats.unique_processed + stats.duplicate_dropped = 1
    /\ \E w \in Workers : pc[w] = "is_processed"
    /\ \A w \in Workers : pc[w] \in {"is_processed", "get"}

\* C33: after stop() has returned, no worker task of that processor is
\* running, and until the lifespan creates a new processor nothing changes
\* the counters, the store, the queue contents or the tasks, whether or not
\* events remain in the queue; a second stop() call changes none of them.
C33_StoppedIsQuiet ==
    /\ [](phase = "stopped" => ~running /\ \A w \in Workers : pc[w] = "done")
    /\ [][phase = "stopped" /\ phase' # "up" =>
            /\ phase' = "stopped"
            /\ stats' = stats /\ db' = db
            /\ queue' = queue /\ putters' = putters
            /\ pc' = pc /\ running' = running]_vars

\* stop() has returned and was called a second time on a processor that had
\* counted an event and left another one in the queue.
C33_Witness ==
    /\ phase = "stopped" /\ again
    /\ queue # <<>> /\ stats.received >= 1
    /\ \A w \in Workers : pc[w] = "done"
====
